---- MODULE Spec2Model ----
(***************************************************************************)
(* Model of the monitoring-system drivers:                                 *)
(*   src/monitoring_system.c  bit-bang (GPIO) variant, lines msd and msc   *)
(*   src/monitoring_i2c.c     block (I2C) variant, lines 1-130             *)
(* Both expose a write handler monitoring_sys_write that frames the bytes  *)
(* written to /proc/monitoring-system with a CRC-32 trailer and transmits  *)
(* the frame.  Definitions of the GPIO variant carry the prefix gpio_,     *)
(* those of the I2C variant the prefix i2c_.  Lines 132-241 of             *)
(* monitoring_i2c.c hold a second file appended to the first: a one-byte   *)
(* variant of the driver that defines every symbol again and calls the     *)
(* undeclared f_byte.  It cannot be built together with lines 1-130 and    *)
(* is not modelled.                                                        *)
(*                                                                         *)
(* 32-bit unsigned values (uint32_t) are pairs <<hi, lo>> of 16-bit        *)
(* halves,                                                                 *)
(* value = hi * 65536 + lo, so that all arithmetic stays inside the        *)
(* integer range of the model checker while keeping the 32-bit width.      *)
(***************************************************************************)
EXTENDS Integers, Sequences, FiniteSets, TLC

(***************************************************************************)
(* Program constants                                                       *)
(***************************************************************************)
MAX_BUFFER_SIZE == 773
MONITORING_SYS_ADDR == 16

EINVAL == 22
EFAULT == 14
ENODEV == 19
EIO == 5

\* Largest block i2c_smbus_write_i2c_block_data transfers; longer lengths
\* are clamped by the bus core.
I2C_SMBUS_BLOCK_MAX == 32

(***************************************************************************)
(* Bounds of the model                                                     *)
(***************************************************************************)
\* longest payload enumerated byte by byte over ByteSamples
MaxLen == 2
\* longest payload of a request in the concurrent bit-bang specification
MaxConcLen == 0
\* number of threads that may be inside the GPIO write handler at once
NumWriters == 2
\* number of matching devices the driver core may bind to a driver
MaxDevices == 2

\* payload byte values enumerated (0xB2 is the bit-order example 10110010)
ByteSamples == {16, 178}
\* values an uninitialised stack byte may be read as: any byte
UninitBytes == 0..255
\* payload lengths around the size checks, the 8-bit length conversion and
\* the block-size clamp
BoundaryCounts == {28, 29, 252, 253, 769, 770, 773, 774}

Writers == 1..NumWriters

\* the addresses of the I2C clients handed to the probe: 0x10 and another
I2cAddresses == {MONITORING_SYS_ADDR, MONITORING_SYS_ADDR + 1}

(***************************************************************************)
(* uint32_t arithmetic                                                     *)
(***************************************************************************)
RECURSIVE Xor16(_, _)
\* a ^ b on values below 2^16
Xor16(a, b) ==
    IF a = 0 THEN b
    ELSE IF b = 0 THEN a
    ELSE ((a + b) % 2) + 2 * Xor16(a \div 2, b \div 2)

\* a ^ b on uint32_t
XorU32(a, b) == <<Xor16(a[1], b[1]), Xor16(a[2], b[2])>>

\* x >> n on uint32_t, 0 <= n < 32
ShiftRight(x, n) ==
    IF n >= 16
    THEN <<0, x[1] \div (2 ^ (n - 16))>>
    ELSE <<x[1] \div (2 ^ n),
           (x[2] \div (2 ^ n)) + (x[1] % (2 ^ n)) * (2 ^ (16 - n))>>

\* x & 0xFF on uint32_t, as a byte
AndFF(x) == x[2] % 256

U32_ALL_ONES == <<65535, 65535>>
U32_ZERO == <<0, 0>>

\* 0xEDB88320, the reflected CRC-32 polynomial of the kernel's crc32_le
CRC32_POLY_LE == <<60856, 33568>>

(***************************************************************************)
(* crc32() of <linux/crc32.h> (crc32_le): no pre- or post-inversion, the   *)
(* caller's seed is the initial register and the register is returned.     *)
(* Bit by bit it is                                                        *)
(*   while (len--) { crc ^= *p++;                                          *)
(*     for (i = 0; i < 8; i++)                                             *)
(*       crc = (crc >> 1) ^ ((crc & 1) ? CRC32_POLY_LE : 0); }             *)
(* and the kernel runs it from the table of the 256 eight-step results:    *)
(*   crc = crc32table_le[(crc ^ *p++) & 255] ^ (crc >> 8)                  *)
(***************************************************************************)
RECURSIVE crc32_bits(_, _)
crc32_bits(crc, k) ==
    IF k = 0 THEN crc
    ELSE crc32_bits(IF crc[2] % 2 = 1
                    THEN XorU32(ShiftRight(crc, 1), CRC32_POLY_LE)
                    ELSE ShiftRight(crc, 1),
                    k - 1)

crc32table_le == [n \in 0..255 |-> crc32_bits(<<0, n>>, 8)]

crc32_byte(crc, byte) ==
    XorU32(crc32table_le[Xor16(AndFF(crc), byte)], ShiftRight(crc, 8))

RECURSIVE crc32_range(_, _, _, _)
\* the loop over data[lo..hi]; the range is halved only to keep the
\* evaluation depth logarithmic, the bytes are consumed in index order
crc32_range(crc, data, lo, hi) ==
    IF lo > hi THEN crc
    ELSE IF lo = hi THEN crc32_byte(crc, data[lo])
    ELSE LET mid == (lo + hi) \div 2
             left == crc32_range(crc, data, lo, mid)
         IN  IF left[1] >= 0
             THEN crc32_range(left, data, mid + 1, hi)
             ELSE left

\* data is the sequence of the first len bytes of the buffer
crc32(seed, data, len) == crc32_range(seed, data, 1, len)

(***************************************************************************)
(* The frame buffer: uint8_t kernel_buffer[MAX_BUFFER_SIZE] on the stack   *)
(* of the handler.  It is a function from the indices written so far to    *)
(* their bytes; an index of 0..MAX_BUFFER_SIZE-1 outside its domain is an  *)
(* uninitialised byte, an index outside 0..MAX_BUFFER_SIZE-1 is outside    *)
(* the array.                                                              *)
(***************************************************************************)
InBuffer(idx) == idx \in 0..(MAX_BUFFER_SIZE - 1)

\* kernel_buffer[idx] = v, for idx inside the array
Store(buf, idx, v) ==
    [k \in (DOMAIN buf) \cup {idx} |-> IF k = idx THEN v ELSE buf[k]]

\* kernel_buffer[idx]; an uninitialised byte reads as stack garbage u
Load(buf, idx, u) == IF idx \in DOMAIN buf THEN buf[idx] ELSE u

\* copy_from_user(kernel_buffer, user_buffer, count) that copied every byte
copy_from_user(user_buffer, count) == [k \in 0..(count - 1) |-> user_buffer[k + 1]]

\* the first len bytes of the buffer, as handed to calculate_crc
BufferPrefix(buf, len) == [k \in 1..len |-> buf[k - 1]]

\* the four trailer bytes in the order the handlers store them
CrcByte(crc, k) == AndFF(ShiftRight(crc, 8 * k))

\* the four stores of the trailer at base, base+1, base+2, base+3; a store
\* outside the array leaves the array as it is
RECURSIVE StoreCrc(_, _, _, _)
StoreCrc(buf, base, crc, k) ==
    IF k = 4 THEN buf
    ELSE StoreCrc(IF InBuffer(base + k) THEN Store(buf, base + k, CrcByte(crc, k)) ELSE buf,
                  base, crc, k + 1)

\* bit j of a byte: (byte >> j) & 1
BitOf(byte, j) == (byte \div (2 ^ j)) % 2

(***************************************************************************)
(* GPIO variant, src/monitoring_system.c                                   *)
(***************************************************************************)
\* CRC-32/JAMCRC
gpio_calculate_crc(data, len) == crc32(U32_ALL_ONES, data, len)

\* if (count > MAX_BUFFER_SIZE - 4) return -EINVAL;
gpio_count_too_big(cnt) == cnt > MAX_BUFFER_SIZE - 4

\* mutation: the trailer starts one byte early, on the last payload byte
gpio_crc_base_one_early(cnt) == cnt - 1

\* kernel_buffer[count] ... kernel_buffer[count + 3]: index of trailer byte 0
gpio_crc_base(cnt) == cnt

\* total_len = count + 4
gpio_total_len(cnt) == cnt + 4

\* the indices the handler stores to: the copy and the trailer
gpio_written(cnt) == (0..(cnt - 1)) \cup {gpio_crc_base(cnt) + k : k \in 0..3}

\* crc = calculate_crc(kernel_buffer, count), after the copy
gpio_crc(cnt, user_buffer) ==
    gpio_calculate_crc(BufferPrefix(copy_from_user(user_buffer, cnt), cnt), cnt)

\* kernel_buffer after the copy and the four trailer stores
gpio_frame(cnt, user_buffer) ==
    StoreCrc(copy_from_user(user_buffer, cnt), gpio_crc_base(cnt),
             gpio_crc(cnt, user_buffer), 0)

\* the value driven on msd for bit j of byte i
gpio_bit(buf, ii, jj, u) == BitOf(Load(buf, ii, u), jj)

\* return total_len;
gpio_return_value(cnt) == gpio_total_len(cnt)

\* mutation: an error path that forces DATA low before it returns
gpio_error_exit_idling(err) ==
    [state |-> "returned", ret |-> 0 - err, crc |-> U32_ZERO, total_len |-> 0,
     kernel_buffer |-> <<>>, written |-> {}, sent |-> {},
     data_out |-> <<0>>, clock_out |-> <<>>]

\* what an error path does to the lines before returning: nothing
gpio_error_exit(err) ==
    [state |-> "returned", ret |-> 0 - err, crc |-> U32_ZERO, total_len |-> 0,
     kernel_buffer |-> <<>>, written |-> {}, sent |-> {},
     data_out |-> <<>>, clock_out |-> <<>>]

\* The whole handler run alone: its return value, its locals crc, total_len
\* and kernel_buffer, the indices of kernel_buffer it stored to (written) and
\* transmitted from (sent), and the values it drove on msd (data_out) and
\* msc (clock_out), in order. fault: copy_from_user left bytes uncopied.
gpio_monitoring_sys_write(cnt, user_buffer, fault, u) ==
    IF gpio_count_too_big(cnt) THEN gpio_error_exit(EINVAL)
    ELSE IF fault THEN gpio_error_exit(EFAULT)
    ELSE LET buf == gpio_frame(cnt, user_buffer)
             total == gpio_total_len(cnt)
         IN  [state |-> "returned",
              ret |-> gpio_return_value(cnt),
              crc |-> gpio_crc(cnt, user_buffer),
              total_len |-> total,
              kernel_buffer |-> buf,
              written |-> gpio_written(cnt),
              sent |-> 0..(total - 1),
              data_out |-> [k \in 1..(8 * total + 1) |->
                               IF k = 8 * total + 1 THEN 0
                               ELSE gpio_bit(buf, (k - 1) \div 8, (k - 1) % 8, u)],
              clock_out |-> [k \in 1..(16 * total) |-> k % 2]]

(***************************************************************************)
(* I2C variant, src/monitoring_i2c.c                                       *)
(***************************************************************************)
i2c_calculate_crc(data, len) == crc32(U32_ZERO, data, len)

\* if (count > MAX_BUFFER_SIZE) return -EINVAL;
i2c_count_too_big(cnt) == cnt > MAX_BUFFER_SIZE

\* kernel_buffer[count - 1] ... kernel_buffer[count + 2]; count - 1 wraps for
\* count = 0 and addresses the byte before the array
i2c_crc_base(cnt) == cnt - 1

\* the length argument count + 4 of the block write
i2c_total_len(cnt) == cnt + 4

\* the conversion of the length argument to u8
i2c_length_u8(len) == len % 256

\* i2c_smbus_write_i2c_block_data transfers at most I2C_SMBUS_BLOCK_MAX bytes
i2c_block_length(length) ==
    IF length > I2C_SMBUS_BLOCK_MAX THEN I2C_SMBUS_BLOCK_MAX ELSE length

i2c_written(cnt) == (0..(cnt - 1)) \cup {i2c_crc_base(cnt) + k : k \in 0..3}

\* the block write reads a byte of kernel_buffer the handler has not stored
i2c_reads_unwritten(cnt) ==
    \E idx \in 0..(i2c_block_length(i2c_length_u8(i2c_total_len(cnt))) - 1) :
        idx \notin i2c_written(cnt)

i2c_crc(cnt, user_buffer) ==
    i2c_calculate_crc(BufferPrefix(copy_from_user(user_buffer, cnt), cnt), cnt)

i2c_frame(cnt, user_buffer) ==
    StoreCrc(copy_from_user(user_buffer, cnt), i2c_crc_base(cnt),
             i2c_crc(cnt, user_buffer), 0)

\* return count;
i2c_return_value(cnt) == cnt

i2c_error_exit(err) ==
    [state |-> "returned", ret |-> 0 - err, crc |-> U32_ZERO, total_len |-> 0,
     kernel_buffer |-> <<>>, written |-> {}, sent |-> {}, blocks |-> <<>>]

\* the calls of i2c_smbus_write_i2c_block_data made for one request: the one
\* in the condition of the if, whatever status it returns
i2c_block_writes(block) == <<block>>

\* one of the trailer stores falls outside kernel_buffer
i2c_stores_outside(cnt) == \E idx \in i2c_written(cnt) : ~InBuffer(idx)

\* the trailer stores made before the first one outside kernel_buffer
i2c_stored_before_trap(cnt) ==
    {k \in 0..3 : \A m \in 0..k : InBuffer(i2c_crc_base(cnt) + m)}

\* kernel_buffer when the handler is killed at its first store outside the
\* array: the copy and the trailer stores before that one
i2c_frame_trapped(cnt, user_buffer) ==
    LET buf == copy_from_user(user_buffer, cnt)
        crc == i2c_crc(cnt, user_buffer)
        stored == {i2c_crc_base(cnt) + k : k \in i2c_stored_before_trap(cnt)}
    IN  [idx \in (DOMAIN buf) \cup stored |->
            IF idx \in stored THEN CrcByte(crc, idx - i2c_crc_base(cnt))
            ELSE buf[idx]]

\* the handler killed at a store outside kernel_buffer (a build that traps
\* on array bounds): it never returns, nothing was handed to the bus
i2c_killed_at_store(cnt, user_buffer) ==
    [state |-> "oops", ret |-> 0,
     crc |-> i2c_crc(cnt, user_buffer), total_len |-> i2c_total_len(cnt),
     kernel_buffer |-> i2c_frame_trapped(cnt, user_buffer),
     written |-> (0..(cnt - 1))
                    \cup {i2c_crc_base(cnt) + k : k \in i2c_stored_before_trap(cnt)},
     sent |-> {}, blocks |-> <<>>]

\* the indices of kernel_buffer the block write transmits
i2c_sent(cnt) == 0..(i2c_block_length(i2c_length_u8(i2c_total_len(cnt))) - 1)

\* the block write: client address, command 0, the bytes, and its status
i2c_block(cnt, buf, bus_fail, u) ==
    [addr |-> MONITORING_SYS_ADDR, command |-> 0,
     data |-> [k \in 1..i2c_block_length(i2c_length_u8(i2c_total_len(cnt))) |->
                  Load(buf, k - 1, u)],
     status |-> IF bus_fail THEN "error" ELSE "ok"]

\* one of the trailer stores falls above kernel_buffer, towards the saved
\* registers and the stack canary of the handler's frame
i2c_stores_above(cnt) == \E idx \in i2c_written(cnt) : idx >= MAX_BUFFER_SIZE

\* the handler stopped at its return statement (a build with the stack
\* protector, after a store above kernel_buffer): it never returns
i2c_stopped_at_return(rec) == [rec EXCEPT !.state = "oops", !.ret = 0]

\* the handler stopped while it runs in the memory of a module that has
\* been unloaded: it never returns
i2c_killed_in_freed_code(rec) == [rec EXCEPT !.state = "oops", !.ret = 0]

\* what a build does about a store outside kernel_buffer: nothing, a trap at
\* the store, or a stop at the return statement (for a store above the array)
OobOutcomes == {"unnoticed", "trap", "stack_check"}

\* The whole handler: its return value, its locals, the indices of
\* kernel_buffer it stored to and transmitted from, and the block writes it
\* issued with the status each returned (blocks).  state is "oops" when the
\* handler never returned.
\*   fault     copy_from_user left bytes uncopied
\*   client    monitoring_sys_client
\*   bus_fail  the block write returns a negative status
\*   u         the value uninitialised bytes of kernel_buffer read as
\*   oob       what the build does about a store outside kernel_buffer
i2c_monitoring_sys_write(cnt, user_buffer, fault, client, bus_fail, u, oob) ==
    IF i2c_count_too_big(cnt) THEN i2c_error_exit(EINVAL)
    ELSE IF fault THEN i2c_error_exit(EFAULT)
    ELSE IF oob = "trap" /\ i2c_stores_outside(cnt)
    THEN i2c_killed_at_store(cnt, user_buffer)
    ELSE LET buf == i2c_frame(cnt, user_buffer)
             built == [state |-> "returned", ret |-> 0,
                       crc |-> i2c_crc(cnt, user_buffer),
                       total_len |-> i2c_total_len(cnt),
                       kernel_buffer |-> buf, written |-> i2c_written(cnt),
                       sent |-> {}, blocks |-> <<>>]
             done == IF client = "NULL"
                     THEN [built EXCEPT !.ret = 0 - ENODEV]
                     ELSE [built EXCEPT
                             !.ret = IF bus_fail THEN 0 - EIO ELSE i2c_return_value(cnt),
                             !.sent = i2c_sent(cnt),
                             !.blocks = i2c_block_writes(i2c_block(cnt, buf, bus_fail, u))]
         IN  IF oob = "stack_check" /\ i2c_stores_above(cnt)
             THEN i2c_stopped_at_return(done)
             ELSE done

(***************************************************************************)
(* State                                                                   *)
(***************************************************************************)
VARIABLES
    driver,          \* GPIO platform driver: "not_built" (the system has the
                     \* other variant), "absent" (module unloaded),
                     \* "unprobed", how its latest probe or remove call
                     \* ended: "failed", "bound", "removed", or "unloading"
                     \* (inside platform_driver_unregister)
    devices,         \* number of platform devices bound to the GPIO driver
    ppc,             \* where the GPIO variant's monitoring_sys_probe is
    probe_acquired,  \* the handles the running probe call has obtained with
                     \* gpiod_get and not given back with gpiod_put
    rpc,             \* where the GPIO variant's monitoring_sys_remove is
    remove_put,      \* the lines the running remove call has given back
                     \* with gpiod_put while they were requested
    msd, msc,        \* struct gpio_desc *: "NULL", "ERR", "held" or "released"
    proc_file,       \* GPIO variant's proc_file pointer: "NULL" or "created"
    proc_entry,      \* the GPIO variant's entry /proc/monitoring-system:
                     \* "none", "registered", "unlinked" (proc_remove has
                     \* taken it out and waits for the calls inside), or
                     \* "stale" (left registered by a module since unloaded)
    data, clock,     \* the levels of the DATA (msd) and CLOCK (msc) lines
    pc,              \* per thread: where it is inside the GPIO write handler
    count,           \* per thread: the handler's count argument
    kernel_buffer,   \* per thread: the handler's kernel_buffer
    i, j,            \* per thread: the loop counters of the bit-bang loops
    ret,             \* per thread: the value the handler returned
    i2c_driver,      \* I2C driver, as driver
    i2c_devices,     \* number of I2C clients bound to the I2C driver
    i2c_ppc,         \* where the I2C variant's monitoring_sys_probe is
    i2c_rpc,         \* where the I2C variant's monitoring_sys_remove is
    monitoring_sys_client,  \* I2C variant's client: "NULL" or "client"
    i2c_proc_file,   \* I2C variant's proc_file pointer: "NULL" or "created"
    i2c_proc_entry,  \* the I2C variant's entry /proc/monitoring-system
    bus,             \* the block writes issued on the I2C bus, in order
    ipc,             \* where the thread inside the I2C write handler is
    req,             \* the write request whose handling is recorded
    gout, iout,      \* the record of the handling of req (GPIO, I2C)
    gprev, iprev     \* the records of an earlier write() of req

gpio_vars == <<driver, devices, ppc, probe_acquired, rpc, remove_put, msd, msc,
               proc_file, proc_entry>>
line_vars == <<data, clock>>
thread_vars == <<pc, count, kernel_buffer, i, j, ret>>
i2c_vars == <<i2c_driver, i2c_devices, i2c_ppc, i2c_rpc, monitoring_sys_client,
              i2c_proc_file, i2c_proc_entry>>
call_vars == <<req, gprev, iprev>>
vars == <<gpio_vars, line_vars, thread_vars, gout, i2c_vars, bus, ipc, iout,
          call_vars>>

\* the handler has not been called
GpioNotCalled ==
    [state |-> "none", ret |-> 0, crc |-> U32_ZERO, total_len |-> 0,
     kernel_buffer |-> <<>>, written |-> {}, sent |-> {},
     data_out |-> <<>>, clock_out |-> <<>>]
I2cNotCalled ==
    [state |-> "none", ret |-> 0, crc |-> U32_ZERO, total_len |-> 0,
     kernel_buffer |-> <<>>, written |-> {}, sent |-> {}, blocks |-> <<>>]

\* a payload of n bytes b+1, b+2, ... (mod 256)
Fill(n, b) == [k \in 1..n |-> (b + k) % 256]

\* the payloads of recorded write requests: every byte string over
\* ByteSamples up to MaxLen bytes, and one payload for each boundary length
Payloads ==
    UNION {[1..n -> ByteSamples] : n \in 0..MaxLen}
        \cup {Fill(n, 178) : n \in BoundaryCounts}

\* the payloads of the concurrent bit-bang specification: the byte 0xB2
\* repeated up to MaxConcLen times, and one oversized payload
ConcPayloads ==
    {[k \in 1..n |-> 178] : n \in 0..MaxConcLen} \cup {Fill(MAX_BUFFER_SIZE - 3, 0)}

\* no request is recorded (its count is not a size)
NoRequest == [count |-> 0 - 1, user_buffer |-> <<>>]

\* the request write(fd, user_buffer, Len(user_buffer))
Request(user_buffer) == [count |-> Len(user_buffer), user_buffer |-> user_buffer]

\* the handling of thread w's request is recorded in gout
Recorded(w) == w = 1 /\ req # NoRequest

\* the payloads thread w may write
WritePayloads(w) == IF Recorded(w) THEN {req.user_buffer} ELSE ConcPayloads

(***************************************************************************)
(* Initial states.  Both variants register the name                        *)
(* /proc/monitoring-system; a system is built with one of them.            *)
(***************************************************************************)
\* the GPIO variant: not built, loaded (globals NULL), or bound to one
\* device by a probe that succeeded
GpioStarts(s) ==
    /\ driver = s
    /\ devices = (IF s = "bound" THEN 1 ELSE 0)
    /\ ppc = "idle" /\ probe_acquired = {} /\ rpc = "idle" /\ remove_put = {}
    /\ msd = (IF s = "bound" THEN "held" ELSE "NULL")
    /\ msc = (IF s = "bound" THEN "held" ELSE "NULL")
    /\ proc_file = (IF s = "bound" THEN "created" ELSE "NULL")
    /\ proc_entry = (IF s = "bound" THEN "registered" ELSE "none")
    /\ data = 0 /\ clock = 0
    /\ pc = [w \in Writers |-> "idle"]
    /\ count = [w \in Writers |-> 0]
    /\ kernel_buffer = [w \in Writers |-> <<>>]
    /\ i = [w \in Writers |-> 0]
    /\ j = [w \in Writers |-> 0]
    /\ ret = [w \in Writers |-> 0]
    /\ gout = GpioNotCalled /\ gprev = GpioNotCalled

\* the I2C variant, likewise
I2cStarts(s) ==
    /\ i2c_driver = s
    /\ i2c_devices = (IF s = "bound" THEN 1 ELSE 0)
    /\ i2c_ppc = "idle" /\ i2c_rpc = "idle"
    /\ monitoring_sys_client = (IF s = "bound" THEN "client" ELSE "NULL")
    /\ i2c_proc_file = (IF s = "bound" THEN "created" ELSE "NULL")
    /\ i2c_proc_entry = (IF s = "bound" THEN "registered" ELSE "none")
    /\ bus = <<>> /\ ipc = "idle"
    /\ iout = I2cNotCalled /\ iprev = I2cNotCalled

\* one variant loaded and in state s, the other not built
OneVariant(s) ==
    \/ GpioStarts(s) /\ I2cStarts("not_built")
    \/ GpioStarts("not_built") /\ I2cStarts(s)

\* the module of a driver is loaded and the driver is registered
Registered(d) == d \in {"unprobed", "failed", "bound", "removed"}

(***************************************************************************)
(* Spec: the GPIO driver from module load on, with NumWriters threads      *)
(* writing to /proc/monitoring-system while the driver core probes the     *)
(* matching devices.  Neither the handler nor the probe holds a lock, and  *)
(* every call that may sleep lets the other threads run, so the threads    *)
(* interleave at every gpiod_set_value() and at every kernel call of the   *)
(* probe.                                                                  *)
(***************************************************************************)
Init == GpioStarts("unprobed") /\ I2cStarts("not_built") /\ req = NoRequest

\* the descriptor pointer after gpiod_put(desc): a requested line is given
\* back; the pointer keeps its value
gpiod_put(desc) == IF desc = "held" THEN "released" ELSE desc

\* monitoring_sys_probe of the GPIO variant, kernel call by kernel call.
\* The function writes the file-scope msd, msc and proc_file whatever they
\* hold from earlier calls.  The driver core calls it for a matching device
\* that is not bound: the first time, again after a failed probe, after a
\* remove, and for a further matching device, until the driver is
\* unregistered.  Calls of probe and remove are taken one at a time.

\* the two device_property_present checks, then
\* msd = gpiod_get(dev, "msd", GPIOD_OUT_LOW); if (IS_ERR(msd)) return ...
ProbeGetMsd ==
    /\ Registered(driver)
    /\ devices < MaxDevices
    /\ ppc = "idle" /\ rpc = "idle"
    /\ \E outcome \in {"no_msd_property", "no_msc_property", "msd_error", "ok"} :
         /\ msd' = CASE outcome = "msd_error" -> "ERR"
                     [] outcome = "ok" -> "held"
                     [] OTHER -> msd
         \* GPIOD_OUT_LOW: an acquired line is an output driven low
         /\ data' = IF outcome = "ok" THEN 0 ELSE data
         /\ probe_acquired' = IF outcome = "ok" THEN {"msd"} ELSE {}
         /\ ppc' = IF outcome = "ok" THEN "get_msc" ELSE "return_error"
    /\ UNCHANGED <<driver, devices, rpc, remove_put, msc, proc_file, proc_entry, clock,
                   thread_vars, gout, i2c_vars, bus, ipc, iout, call_vars>>

\* msc = gpiod_get(dev, "msc", GPIOD_OUT_LOW); if (IS_ERR(msc)) return ...
ProbeGetMsc ==
    /\ ppc = "get_msc"
    /\ \E ok \in BOOLEAN :
         /\ msc' = IF ok THEN "held" ELSE "ERR"
         /\ clock' = IF ok THEN 0 ELSE clock
         /\ probe_acquired' = IF ok THEN probe_acquired \cup {"msc"} ELSE probe_acquired
         /\ ppc' = IF ok THEN "proc_create" ELSE "return_error"
    /\ UNCHANGED <<driver, devices, rpc, remove_put, msd, proc_file, proc_entry, data,
                   thread_vars, gout, i2c_vars, bus, ipc, iout, call_vars>>

\* the outcomes of proc_create("monitoring-system", ...): it fails when the
\* name is registered already, by this module or by one since unloaded, and
\* may fail for lack of memory
proc_create_succeeds(entry) ==
    IF entry \in {"registered", "stale"} THEN {FALSE} ELSE BOOLEAN

\* proc_file = proc_create("monitoring-system", 0666, NULL, &fops);
\* NULL when it fails
ProbeProcCreate ==
    /\ ppc = "proc_create"
    /\ \E ok \in proc_create_succeeds(proc_entry) :
         /\ proc_file' = IF ok THEN "created" ELSE "NULL"
         /\ proc_entry' = IF ok THEN "registered" ELSE proc_entry
         /\ ppc' = IF ok THEN "return_ok" ELSE "put_msd"
    /\ UNCHANGED <<driver, devices, probe_acquired, rpc, remove_put, msd, msc, line_vars,
                   thread_vars, gout, i2c_vars, bus, ipc, iout, call_vars>>

\* gpiod_put(msd); on the proc_create failure path
ProbePutMsd ==
    /\ ppc = "put_msd"
    /\ msd' = gpiod_put(msd)
    /\ probe_acquired' = probe_acquired \ {"msd"}
    /\ ppc' = "put_msc"
    /\ UNCHANGED <<driver, devices, rpc, remove_put, msc, proc_file, proc_entry, line_vars,
                   thread_vars, gout, i2c_vars, bus, ipc, iout, call_vars>>

\* gpiod_put(msc); return -ENOMEM;
ProbePutMsc ==
    /\ ppc = "put_msc"
    /\ msc' = gpiod_put(msc)
    /\ probe_acquired' = probe_acquired \ {"msc"}
    /\ ppc' = "return_error"
    /\ UNCHANGED <<driver, devices, rpc, remove_put, msd, proc_file, proc_entry, line_vars,
                   thread_vars, gout, i2c_vars, bus, ipc, iout, call_vars>>

\* the probe returns to the driver core, which binds the device on 0
ProbeReturn ==
    /\ ppc \in {"return_ok", "return_error"}
    /\ driver' = IF ppc = "return_ok" THEN "bound" ELSE "failed"
    /\ devices' = IF ppc = "return_ok" THEN devices + 1 ELSE devices
    /\ probe_acquired' = {}
    /\ ppc' = "idle"
    /\ UNCHANGED <<rpc, remove_put, msd, msc, proc_file, proc_entry, line_vars,
                   thread_vars, gout, i2c_vars, bus, ipc, iout, call_vars>>

Probe ==
    \/ ProbeGetMsd \/ ProbeGetMsc \/ ProbeProcCreate
    \/ ProbePutMsd \/ ProbePutMsc \/ ProbeReturn

\* The level of a line after gpiod_set_value(desc, value) when it was at
\* level: the value on a requested line; nothing changes for a NULL or error
\* pointer; on a descriptor already given back with gpiod_put the call is
\* outside the contract of the GPIO consumer interface and the line may or
\* may not take the value.
gpiod_set_value(desc, level, value) ==
    CASE desc = "held" -> {value}
      [] desc = "released" -> {value, level}
      [] OTHER -> {level}

\* the line level after the drives vs: the last one, or the level before
AfterDrives(level, vs) == IF Len(vs) = 0 THEN level ELSE vs[Len(vs)]

\* an error path of the handler of thread w: what it does to the lines,
\* then return -err
GpioErrorReturn(w, err) ==
    /\ pc' = [pc EXCEPT ![w] = "done"]
    /\ ret' = [ret EXCEPT ![w] = 0 - err]
    /\ data' = AfterDrives(data, gpio_error_exit(err).data_out)
    /\ clock' = AfterDrives(clock, gpio_error_exit(err).clock_out)
    /\ gout' = IF Recorded(w) THEN gpio_error_exit(err) ELSE gout

\* Entry of the handler: write() finds the entry in /proc and calls
\* monitoring_sys_write, which checks the size.
WriteEnter(w) ==
    /\ proc_entry \in {"registered", "stale"}
    /\ pc[w] = "idle"
    /\ Recorded(w) => gout.state = "none"
    /\ \E user_buffer \in WritePayloads(w) :
         LET cnt == Len(user_buffer) IN
         /\ count' = [count EXCEPT ![w] = cnt]
         /\ IF gpio_count_too_big(cnt)
            THEN GpioErrorReturn(w, EINVAL)
            ELSE /\ pc' = [pc EXCEPT ![w] = "copy"]
                 /\ gout' = IF Recorded(w)
                            THEN [GpioNotCalled EXCEPT !.state = "running"]
                            ELSE gout
                 /\ UNCHANGED <<ret, line_vars>>
    /\ UNCHANGED <<kernel_buffer, i, j, gpio_vars, i2c_vars, bus, ipc, iout, call_vars>>

\* copy_from_user (which may sleep), then the CRC, the trailer and total_len,
\* all on the thread's own stack
WriteCopy(w) ==
    /\ pc[w] = "copy"
    /\ \E user_buffer \in WritePayloads(w), fault \in BOOLEAN :
         /\ Len(user_buffer) = count[w]
         /\ fault => count[w] > 0
         /\ IF fault
            THEN /\ GpioErrorReturn(w, EFAULT)
                 /\ UNCHANGED kernel_buffer
            ELSE /\ pc' = [pc EXCEPT ![w] = "set_data"]
                 /\ kernel_buffer' = [kernel_buffer EXCEPT
                                         ![w] = gpio_frame(count[w], user_buffer)]
                 /\ gout' = IF Recorded(w)
                            THEN [gout EXCEPT
                                    !.crc = gpio_crc(count[w], user_buffer),
                                    !.total_len = gpio_total_len(count[w]),
                                    !.kernel_buffer = gpio_frame(count[w], user_buffer),
                                    !.written = gpio_written(count[w])]
                            ELSE gout
                 /\ UNCHANGED <<ret, line_vars>>
    /\ UNCHANGED <<count, i, j, gpio_vars, i2c_vars, bus, ipc, iout, call_vars>>

\* gpiod_set_value(msd, (kernel_buffer[i] >> j) & 1); usleep_range(100, 100);
SetData(w) ==
    /\ pc[w] = "set_data"
    /\ \E u \in UninitBytes :
         \* the loop reads only bytes the handler has stored
         /\ i[w] \in DOMAIN kernel_buffer[w] => u = 0
         /\ LET bit == gpio_bit(kernel_buffer[w], i[w], j[w], u) IN
            /\ data' \in gpiod_set_value(msd, data, bit)
            /\ gout' = IF Recorded(w)
                       THEN [gout EXCEPT !.data_out = Append(@, bit),
                                         !.sent = @ \cup {i[w]}]
                       ELSE gout
    /\ pc' = [pc EXCEPT ![w] = "clock_high"]
    /\ UNCHANGED <<clock, count, kernel_buffer, i, j, ret, gpio_vars, i2c_vars,
                   bus, ipc, iout, call_vars>>

\* gpiod_set_value(msc, 1); usleep_range(200, 200);
ClockHigh(w) ==
    /\ pc[w] = "clock_high"
    /\ clock' \in gpiod_set_value(msc, clock, 1)
    /\ gout' = IF Recorded(w) THEN [gout EXCEPT !.clock_out = Append(@, 1)] ELSE gout
    /\ pc' = [pc EXCEPT ![w] = "clock_low"]
    /\ UNCHANGED <<data, count, kernel_buffer, i, j, ret, gpio_vars, i2c_vars,
                   bus, ipc, iout, call_vars>>

\* gpiod_set_value(msc, 0); usleep_range(100, 100); j++, and at j = 8 i++
ClockLow(w) ==
    /\ pc[w] = "clock_low"
    /\ clock' \in gpiod_set_value(msc, clock, 0)
    /\ gout' = IF Recorded(w) THEN [gout EXCEPT !.clock_out = Append(@, 0)] ELSE gout
    /\ LET last_bit == j[w] + 1 = 8
           next_i == IF last_bit THEN i[w] + 1 ELSE i[w]
       IN  /\ j' = [j EXCEPT ![w] = IF last_bit THEN 0 ELSE j[w] + 1]
           /\ i' = [i EXCEPT ![w] = next_i]
           /\ pc' = [pc EXCEPT ![w] = IF next_i < gpio_total_len(count[w])
                                      THEN "set_data" ELSE "set_idle"]
    /\ UNCHANGED <<data, count, kernel_buffer, ret, gpio_vars, i2c_vars,
                   bus, ipc, iout, call_vars>>

\* gpiod_set_value(msd, 0); return total_len;
SetIdle(w) ==
    /\ pc[w] = "set_idle"
    /\ data' \in gpiod_set_value(msd, data, 0)
    /\ ret' = [ret EXCEPT ![w] = gpio_return_value(count[w])]
    /\ gout' = IF Recorded(w)
               THEN [gout EXCEPT !.data_out = Append(@, 0),
                                 !.ret = gpio_return_value(count[w]),
                                 !.state = "returned"]
               ELSE gout
    /\ pc' = [pc EXCEPT ![w] = "done"]
    /\ UNCHANGED <<clock, count, kernel_buffer, i, j, gpio_vars, i2c_vars,
                   bus, ipc, iout, call_vars>>

\* the write() system call is over
WriteExit(w) ==
    /\ pc[w] = "done"
    /\ pc' = [pc EXCEPT ![w] = "idle"]
    /\ count' = [count EXCEPT ![w] = 0]
    /\ kernel_buffer' = [kernel_buffer EXCEPT ![w] = <<>>]
    /\ i' = [i EXCEPT ![w] = 0]
    /\ j' = [j EXCEPT ![w] = 0]
    /\ ret' = [ret EXCEPT ![w] = 0]
    /\ UNCHANGED <<gpio_vars, line_vars, gout, i2c_vars, bus, ipc, iout, call_vars>>

Enter == \E w \in Writers : WriteEnter(w)
Copy == \E w \in Writers : WriteCopy(w)
DriveData == \E w \in Writers : SetData(w)
RaiseClock == \E w \in Writers : ClockHigh(w)
LowerClock == \E w \in Writers : ClockLow(w)
IdleData == \E w \in Writers : SetIdle(w)
Exit == \E w \in Writers : WriteExit(w)

Next ==
    \/ Probe
    \/ Enter \/ Copy \/ DriveData \/ RaiseClock \/ LowerClock \/ IdleData \/ Exit

Spec == Init /\ [][Next]_vars

(***************************************************************************)
(* The I2C write handler, step by step: copy_from_user may sleep and       *)
(* i2c_smbus_write_i2c_block_data sleeps while the transfer runs.          *)
(***************************************************************************)
\* write() finds the entry in /proc and calls monitoring_sys_write, which
\* checks the size
I2cEnter ==
    /\ i2c_proc_entry \in {"registered", "stale"}
    /\ ipc = "idle" /\ iout.state = "none"
    /\ req # NoRequest
    /\ IF i2c_count_too_big(req.count)
       THEN /\ iout' = i2c_error_exit(EINVAL)
            /\ ipc' = "idle"
       ELSE /\ iout' = [I2cNotCalled EXCEPT !.state = "running"]
            /\ ipc' = "copy"
    /\ UNCHANGED <<gpio_vars, line_vars, thread_vars, gout, i2c_vars, bus, call_vars>>

\* copy_from_user, then the CRC and the four trailer stores.  trap: the
\* build checks array bounds and kills the handler at the first store
\* outside kernel_buffer.
I2cCopy ==
    /\ ipc = "copy"
    /\ \E fault \in BOOLEAN, trap \in BOOLEAN :
         /\ fault => req.count > 0
         /\ trap => ~fault /\ i2c_stores_outside(req.count)
         /\ IF fault
            THEN /\ iout' = i2c_error_exit(EFAULT)
                 /\ ipc' = "idle"
            ELSE IF trap
            THEN /\ iout' = i2c_killed_at_store(req.count, req.user_buffer)
                 /\ ipc' = "killed"
            ELSE /\ iout' = [iout EXCEPT
                               !.crc = i2c_crc(req.count, req.user_buffer),
                               !.total_len = i2c_total_len(req.count),
                               !.kernel_buffer = i2c_frame(req.count, req.user_buffer),
                               !.written = i2c_written(req.count)]
                 /\ ipc' = "block_write"
    /\ UNCHANGED <<gpio_vars, line_vars, thread_vars, gout, i2c_vars, bus, call_vars>>

\* if (!monitoring_sys_client) ... -ENODEV; otherwise
\* i2c_smbus_write_i2c_block_data(monitoring_sys_client, 0, count + 4,
\* kernel_buffer): the block is on the bus
I2cBlockWrite ==
    /\ ipc = "block_write"
    /\ IF monitoring_sys_client = "NULL"
       THEN /\ iout' = [iout EXCEPT !.ret = 0 - ENODEV]
            /\ UNCHANGED bus
       ELSE \E bus_fail \in BOOLEAN, u \in UninitBytes :
              /\ ~i2c_reads_unwritten(req.count) => u = 0
              /\ LET block == i2c_block(req.count, iout.kernel_buffer, bus_fail, u) IN
                 /\ iout' = [iout EXCEPT
                               !.ret = IF bus_fail THEN 0 - EIO
                                       ELSE i2c_return_value(req.count),
                               !.sent = i2c_sent(req.count),
                               !.blocks = i2c_block_writes(block)]
                 /\ bus' = bus \o i2c_block_writes(block)
    /\ ipc' = "return"
    /\ UNCHANGED <<gpio_vars, line_vars, thread_vars, gout, i2c_vars, call_vars>>

\* the return statement.  stopped: the build has the stack protector, which
\* finds the stack damaged by a store above kernel_buffer and stops the
\* handler.
I2cReturn ==
    /\ ipc = "return"
    /\ \E stopped \in BOOLEAN :
         /\ stopped => i2c_stores_above(req.count)
         /\ iout' = IF stopped THEN i2c_stopped_at_return(iout)
                    ELSE [iout EXCEPT !.state = "returned"]
         /\ ipc' = IF stopped THEN "killed" ELSE "idle"
    /\ UNCHANGED <<gpio_vars, line_vars, thread_vars, gout, i2c_vars, bus, call_vars>>

I2cWrite == I2cEnter \/ I2cCopy \/ I2cBlockWrite \/ I2cReturn

\* the steps of thread 1 in the GPIO handler
GpioWrite ==
    \/ WriteEnter(1) \/ WriteCopy(1) \/ SetData(1) \/ ClockHigh(1) \/ ClockLow(1)
    \/ SetIdle(1) \/ WriteExit(1)

(***************************************************************************)
(* SpecFrame: one write request, drawn from Payloads, written by one       *)
(* thread to the proc file of the variant that is loaded and bound; every  *)
(* step of its handling is recorded.                                       *)
(***************************************************************************)
InitFrame ==
    /\ OneVariant("bound")
    /\ \E user_buffer \in Payloads : req = Request(user_buffer)

NextFrame == GpioWrite \/ I2cWrite

SpecFrame == InitFrame /\ [][NextFrame]_vars

(***************************************************************************)
(* SpecAgain: as SpecFrame, and a request whose write() has succeeded is   *)
(* written a second time: the same bytes are handed to write() again, the  *)
(* handler building its frame in a new kernel_buffer on its stack.         *)
(***************************************************************************)
\* the payloads written twice: the empty one, one byte, and the boundary
\* lengths from 29 bytes on
AgainPayloads == {<<>>, <<178>>} \cup {Fill(n, 178) : n \in BoundaryCounts \ {28}}

InitAgain ==
    /\ OneVariant("bound")
    /\ \E user_buffer \in AgainPayloads : req = Request(user_buffer)

\* the first write() has succeeded and the caller writes the request again
WriteAgain ==
    /\ \/ gout.state = "returned" /\ gout.ret >= 0 /\ pc[1] = "idle"
       \/ iout.state = "returned" /\ iout.ret >= 0
    /\ gprev.state = "none" /\ iprev.state = "none"
    /\ gprev' = gout /\ iprev' = iout
    /\ gout' = GpioNotCalled /\ iout' = I2cNotCalled
    /\ UNCHANGED <<req, gpio_vars, line_vars, thread_vars, i2c_vars, bus, ipc>>

NextAgain == GpioWrite \/ I2cWrite \/ WriteAgain

SpecAgain == InitAgain /\ [][NextAgain]_vars

(***************************************************************************)
(* SpecLife: one of the two drivers from module load on, through probes    *)
(* and removes to the unload of the module, and through further loads and  *)
(* unloads, each call taken kernel call by kernel call, while one thread   *)
(* writes to the proc file:                                                *)
(* payloads of ConcPayloads on the GPIO variant, the empty payload,        *)
(* recorded, on the I2C variant.                                           *)
(***************************************************************************)
InitLife ==
    \/ GpioStarts("unprobed") /\ I2cStarts("not_built") /\ req = NoRequest
    \/ GpioStarts("not_built") /\ I2cStarts("unprobed") /\ req = Request(<<>>)

\* monitoring_sys_remove of the GPIO variant, statement by statement
\* gpiod_put(msd);
RemovePutMsd ==
    /\ devices > 0 /\ rpc = "idle" /\ ppc = "idle"
    /\ msd' = gpiod_put(msd)
    /\ remove_put' = IF msd = "held" THEN {"msd"} ELSE {}
    /\ rpc' = "put_msc"
    /\ UNCHANGED <<driver, devices, ppc, probe_acquired, msc, proc_file, proc_entry,
                   line_vars, thread_vars, gout, i2c_vars, bus, ipc, iout, call_vars>>

\* gpiod_put(msc);
RemovePutMsc ==
    /\ rpc = "put_msc"
    /\ msc' = gpiod_put(msc)
    /\ remove_put' = IF msc = "held" THEN remove_put \cup {"msc"} ELSE remove_put
    /\ rpc' = "proc_remove"
    /\ UNCHANGED <<driver, devices, ppc, probe_acquired, msd, proc_file, proc_entry,
                   line_vars, thread_vars, gout, i2c_vars, bus, ipc, iout, call_vars>>

\* proc_remove(proc_file) takes the entry out of /proc (nothing for a NULL
\* pointer): no write() enters the handler any more ...
RemoveProcEntry ==
    /\ rpc = "proc_remove"
    /\ proc_entry' = IF proc_file = "created" THEN "unlinked" ELSE proc_entry
    /\ rpc' = "rundown"
    /\ UNCHANGED <<driver, devices, ppc, probe_acquired, remove_put, msd, msc, proc_file,
                   line_vars, thread_vars, gout, i2c_vars, bus, ipc, iout, call_vars>>

\* thread w is inside the handler: write() has called it and it has not
\* returned
InHandler(w) ==
    pc[w] \in {"copy", "set_data", "clock_high", "clock_low", "set_idle", "killed"}

\* ... and returns when every call inside the handler has returned; then
\* proc_file = NULL; msd = NULL; msc = NULL; return 0;
RemoveReturn ==
    /\ rpc = "rundown"
    /\ proc_entry = "unlinked" => \A w \in Writers : ~InHandler(w)
    /\ proc_entry' = IF proc_entry = "unlinked" THEN "none" ELSE proc_entry
    /\ proc_file' = "NULL" /\ msd' = "NULL" /\ msc' = "NULL"
    /\ remove_put' = {}
    /\ rpc' = "idle"
    /\ driver' = IF driver = "unloading" THEN driver ELSE "removed"
    /\ devices' = devices - 1
    /\ UNCHANGED <<ppc, probe_acquired, line_vars, thread_vars, gout, i2c_vars,
                   bus, ipc, iout, call_vars>>

GpioRemove == RemovePutMsd \/ RemovePutMsc \/ RemoveProcEntry \/ RemoveReturn

\* if (client->addr != 0x10) return -1;
i2c_addr_refused(addr) == addr # MONITORING_SYS_ADDR

\* monitoring_sys_probe of the I2C variant for a client at address addr:
\* the address check and monitoring_sys_client = client;
I2cProbeClient ==
    /\ Registered(i2c_driver)
    /\ i2c_devices < MaxDevices
    /\ i2c_ppc = "idle" /\ i2c_rpc = "idle"
    /\ \E addr \in I2cAddresses :
         IF i2c_addr_refused(addr)
         THEN /\ i2c_ppc' = "return_error"
              /\ UNCHANGED monitoring_sys_client
         ELSE /\ monitoring_sys_client' = "client"
              /\ i2c_ppc' = "proc_create"
    /\ UNCHANGED <<i2c_driver, i2c_devices, i2c_rpc, i2c_proc_file, i2c_proc_entry,
                   bus, ipc, iout, gpio_vars, line_vars, thread_vars, gout, call_vars>>

\* proc_file = proc_create("monitoring-system", 0666, NULL, &fops);
I2cProbeProcCreate ==
    /\ i2c_ppc = "proc_create"
    /\ \E ok \in proc_create_succeeds(i2c_proc_entry) :
         /\ i2c_proc_file' = IF ok THEN "created" ELSE "NULL"
         /\ i2c_proc_entry' = IF ok THEN "registered" ELSE i2c_proc_entry
         /\ i2c_ppc' = IF ok THEN "return_ok" ELSE "return_error"
    /\ UNCHANGED <<i2c_driver, i2c_devices, i2c_rpc, monitoring_sys_client,
                   bus, ipc, iout, gpio_vars, line_vars, thread_vars, gout, call_vars>>

\* the probe returns to the driver core, which binds the client on 0
I2cProbeReturn ==
    /\ i2c_ppc \in {"return_ok", "return_error"}
    /\ i2c_driver' = IF i2c_ppc = "return_ok" THEN "bound" ELSE "failed"
    /\ i2c_devices' = IF i2c_ppc = "return_ok" THEN i2c_devices + 1 ELSE i2c_devices
    /\ i2c_ppc' = "idle"
    /\ UNCHANGED <<i2c_rpc, monitoring_sys_client, i2c_proc_file, i2c_proc_entry,
                   bus, ipc, iout, gpio_vars, line_vars, thread_vars, gout, call_vars>>

I2cProbe == I2cProbeClient \/ I2cProbeProcCreate \/ I2cProbeReturn

\* monitoring_sys_remove of the I2C variant: proc_remove(proc_file) takes
\* the entry out of /proc ...
I2cRemoveProcEntry ==
    /\ i2c_devices > 0
    /\ i2c_rpc = "idle" /\ i2c_ppc = "idle"
    /\ i2c_proc_entry' = IF i2c_proc_file = "created" THEN "unlinked" ELSE i2c_proc_entry
    /\ i2c_rpc' = "rundown"
    /\ UNCHANGED <<i2c_driver, i2c_devices, i2c_ppc, monitoring_sys_client,
                   i2c_proc_file, bus, ipc, iout, gpio_vars, line_vars, thread_vars,
                   gout, call_vars>>

\* ... and returns when the call inside the handler has returned (ipc is
\* "idle" again); then proc_file = NULL; (monitoring_sys_client keeps its
\* value)
I2cRemoveReturn ==
    /\ i2c_rpc = "rundown"
    /\ i2c_proc_entry = "unlinked" => ipc = "idle"
    /\ i2c_proc_entry' = IF i2c_proc_entry = "unlinked" THEN "none" ELSE i2c_proc_entry
    /\ i2c_proc_file' = "NULL"
    /\ i2c_rpc' = "idle"
    /\ i2c_driver' = IF i2c_driver = "unloading" THEN i2c_driver ELSE "removed"
    /\ i2c_devices' = i2c_devices - 1
    /\ UNCHANGED <<i2c_ppc, monitoring_sys_client, bus, ipc, iout, gpio_vars,
                   line_vars, thread_vars, gout, call_vars>>

I2cRemove == I2cRemoveProcEntry \/ I2cRemoveReturn

\* monitoring_system_exit of the GPIO variant, called when the module is
\* unloaded: platform_driver_unregister(&monitoring_sys_driver) takes the
\* driver off the bus, so that no device is probed any more, ...
ExitUnregister ==
    /\ Registered(driver)
    /\ ppc = "idle" /\ rpc = "idle"
    /\ driver' = "unloading"
    /\ UNCHANGED <<devices, ppc, probe_acquired, rpc, remove_put, msd, msc,
                   proc_file, proc_entry, line_vars, thread_vars, gout, i2c_vars,
                   bus, ipc, iout, call_vars>>

\* ... calls monitoring_sys_remove for every device bound to the driver
\* (the steps of GpioRemove), and returns; the module's code and variables
\* are freed.  /proc is not part of the module: an entry that no remove call
\* took out stays registered and refers to the freed handler from then on.
ExitReturn ==
    /\ driver = "unloading" /\ devices = 0 /\ rpc = "idle"
    /\ driver' = "absent"
    /\ proc_entry' = IF proc_entry = "registered" THEN "stale" ELSE proc_entry
    /\ UNCHANGED <<devices, ppc, probe_acquired, rpc, remove_put, msd, msc,
                   proc_file, line_vars, thread_vars, gout, i2c_vars,
                   bus, ipc, iout, call_vars>>

monitoring_system_exit == ExitUnregister \/ ExitReturn

\* monitoring_system_init, called when the module is loaded again after an
\* unload: the module's variables start from their initialisers (NULL) and
\* platform_driver_register(&monitoring_sys_driver) puts the driver on the
\* bus, so that matching devices are probed again.  When the registration
\* fails the function returns -1 and the module is not loaded.
monitoring_system_init ==
    /\ driver = "absent"
    /\ \E ok \in BOOLEAN :
         IF ok
         THEN /\ driver' = "unprobed"
              /\ msd' = "NULL" /\ msc' = "NULL" /\ proc_file' = "NULL"
         ELSE UNCHANGED <<driver, msd, msc, proc_file>>
    /\ UNCHANGED <<devices, ppc, probe_acquired, rpc, remove_put, proc_entry,
                   line_vars, thread_vars, gout, i2c_vars, bus, ipc, iout, call_vars>>

\* A thread that runs the handler of an unloaded module, through the entry
\* it left in /proc or because it was inside the handler at the unload (which
\* needs such an entry: proc_remove of a created entry waits for the calls
\* inside), executes freed memory.  It may go on as if the code and the
\* variables were still there, or were those of the module loaded again in
\* their place (the steps of the handler), or be stopped at any point, which
\* is this step.
UnloadedCodeFault(w) ==
    /\ proc_entry = "stale"
    /\ (InHandler(w) /\ pc[w] # "killed") \/ pc[w] = "idle"
    /\ pc' = [pc EXCEPT ![w] = "killed"]
    /\ gout' = IF Recorded(w) THEN [gout EXCEPT !.state = "oops", !.ret = 0] ELSE gout
    /\ UNCHANGED <<count, kernel_buffer, i, j, ret, gpio_vars, line_vars, i2c_vars,
                   bus, ipc, iout, call_vars>>

GpioWriteUnloaded == UnloadedCodeFault(1)

\* the exit function module_i2c_driver generates for the I2C variant:
\* i2c_del_driver(&monitoring_sys_driver) takes the driver off the bus, ...
I2cExitUnregister ==
    /\ Registered(i2c_driver)
    /\ i2c_ppc = "idle" /\ i2c_rpc = "idle"
    /\ i2c_driver' = "unloading"
    /\ UNCHANGED <<i2c_devices, i2c_ppc, i2c_rpc, monitoring_sys_client,
                   i2c_proc_file, i2c_proc_entry, bus, ipc, iout, gpio_vars,
                   line_vars, thread_vars, gout, call_vars>>

\* ... calls monitoring_sys_remove for every client bound to the driver
\* (the steps of I2cRemove), and returns
I2cExitReturn ==
    /\ i2c_driver = "unloading" /\ i2c_devices = 0 /\ i2c_rpc = "idle"
    /\ i2c_driver' = "absent"
    /\ i2c_proc_entry' = IF i2c_proc_entry = "registered" THEN "stale"
                         ELSE i2c_proc_entry
    /\ UNCHANGED <<i2c_devices, i2c_ppc, i2c_rpc, monitoring_sys_client,
                   i2c_proc_file, bus, ipc, iout, gpio_vars,
                   line_vars, thread_vars, gout, call_vars>>

i2c_driver_exit == I2cExitUnregister \/ I2cExitReturn

\* the init function module_i2c_driver generates, called when the module is
\* loaded again after an unload: the module's variables start from their
\* initialisers (NULL) and i2c_add_driver(&monitoring_sys_driver) puts the
\* driver on the bus; when that fails the module is not loaded
i2c_driver_init ==
    /\ i2c_driver = "absent"
    /\ \E ok \in BOOLEAN :
         IF ok
         THEN /\ i2c_driver' = "unprobed"
              /\ monitoring_sys_client' = "NULL" /\ i2c_proc_file' = "NULL"
         ELSE UNCHANGED <<i2c_driver, monitoring_sys_client, i2c_proc_file>>
    /\ UNCHANGED <<i2c_devices, i2c_ppc, i2c_rpc, i2c_proc_entry, bus, ipc, iout,
                   gpio_vars, line_vars, thread_vars, gout, call_vars>>

\* the I2C handler of an unloaded module, as UnloadedCodeFault
I2cWriteUnloaded ==
    /\ i2c_proc_entry = "stale"
    /\ \/ ipc \in {"copy", "block_write", "return"}
       \/ ipc = "idle" /\ iout.state = "none" /\ req # NoRequest
    /\ ipc' = "killed"
    /\ iout' = i2c_killed_in_freed_code(iout)
    /\ UNCHANGED <<gpio_vars, line_vars, thread_vars, gout, i2c_vars, bus, call_vars>>

NextLife ==
    \/ Probe \/ GpioWrite \/ GpioRemove \/ monitoring_system_exit
    \/ monitoring_system_init \/ GpioWriteUnloaded
    \/ I2cProbe \/ I2cWrite \/ I2cRemove \/ i2c_driver_exit
    \/ i2c_driver_init \/ I2cWriteUnloaded

SpecLife == InitLife /\ [][NextLife]_vars

(***************************************************************************)
(* Reference definitions used by the properties                            *)
(***************************************************************************)
\* CRC-32/JAMCRC by its catalogue parameters: width 32, poly 0x04C11DB7,
\* init 0xFFFFFFFF, refin, refout, xorout 0, computed most significant bit
\* first on the reflected input bytes and reflected at the end.
Reflect8(b) ==
    BitOf(b, 0) * 128 + BitOf(b, 1) * 64 + BitOf(b, 2) * 32 + BitOf(b, 3) * 16
        + BitOf(b, 4) * 8 + BitOf(b, 5) * 4 + BitOf(b, 6) * 2 + BitOf(b, 7)
Reflect16(v) == Reflect8(v % 256) * 256 + Reflect8(v \div 256)
Reflect32(x) == <<Reflect16(x[2]), Reflect16(x[1])>>
ShiftLeft1(x) == <<((x[1] * 2) % 65536) + (x[2] \div 32768), (x[2] * 2) % 65536>>
Crc32PolyNormal == <<1217, 7607>>

RECURSIVE JamCrcBits(_, _)
JamCrcBits(reg, k) ==
    IF k = 0 THEN reg
    ELSE JamCrcBits(IF reg[1] >= 32768
                    THEN XorU32(ShiftLeft1(reg), Crc32PolyNormal)
                    ELSE ShiftLeft1(reg),
                    k - 1)

RECURSIVE JamCrcRange(_, _, _, _)
JamCrcRange(reg, bytes, lo, hi) ==
    IF lo > hi THEN reg
    ELSE IF lo = hi
    THEN JamCrcBits(<<Xor16(reg[1], Reflect8(bytes[lo]) * 256), reg[2]>>, 8)
    ELSE LET mid == (lo + hi) \div 2
             left == JamCrcRange(reg, bytes, lo, mid)
         IN  IF left[1] >= 0 THEN JamCrcRange(left, bytes, mid + 1, hi) ELSE left

JamCrc(bytes) == Reflect32(JamCrcRange(U32_ALL_ONES, bytes, 1, Len(bytes)))

\* the numeric value of four bytes read as a little-endian uint32_t
LittleEndianU32(b0, b1, b2, b3) == <<b3 * 256 + b2, b1 * 256 + b0>>

\* the bytes a receiver assembles from the DATA values of a bit-bang write,
\* eight per byte, first value = bit 0
ShiftedBytes(data_out, total) ==
    [m \in 1..total |->
        data_out[8 * m - 7] + 2 * data_out[8 * m - 6] + 4 * data_out[8 * m - 5]
            + 8 * data_out[8 * m - 4] + 16 * data_out[8 * m - 3]
            + 32 * data_out[8 * m - 2] + 64 * data_out[8 * m - 1]
            + 128 * data_out[8 * m]]

\* the payload followed by the little-endian CRC-32/JAMCRC trailer
ReferenceFrame(payload) ==
    LET crc == JamCrc(payload) IN
    payload \o <<crc[2] % 256, crc[2] \div 256, crc[1] % 256, crc[1] \div 256>>

\* thread w is between its first DATA drive and its final DATA-low
InFlight(w) ==
    \/ pc[w] \in {"clock_high", "clock_low", "set_idle"}
    \/ pc[w] = "set_data" /\ (i[w] > 0 \/ j[w] > 0)

\* this step is a gpiod_set_value() of thread w
LineDrive(w) ==
    /\ pc[w] \in {"set_data", "clock_high", "clock_low", "set_idle"}
    /\ pc'[w] \notin {pc[w], "killed"}

\* the handling of the recorded request is over: the handler has returned,
\* or it was stopped and never returns ("oops")
GpioEnded == gout.state \in {"returned", "oops"}
I2cEnded == iout.state \in {"returned", "oops"}

GpioSucceeded == gout.state = "returned" /\ gout.ret >= 0
I2cSucceeded == iout.state = "returned" /\ iout.ret >= 0
Rejections == {0 - EINVAL, 0 - EFAULT, 0 - ENODEV}

(***************************************************************************)
(* Properties                                                              *)
(***************************************************************************)

\* C1: two concurrent bit-bang write requests never interleave their line
\* events: no thread drives DATA or CLOCK while another thread is between
\* its first DATA drive and its final DATA-low.
C1_NoInterleaving ==
    [][\A w \in Writers :
          LineDrive(w) => \A v \in Writers \ {w} : ~InFlight(v)]_vars

\* C2: on both endpoints a write of count >= MAX_BUFFER_SIZE - 3 fails with
\* EINVAL, and a write of count = MAX_BUFFER_SIZE - 4 is not rejected for
\* its size and, copied, is framed.
C2_OverflowRejection ==
    /\ GpioEnded =>
         /\ req.count >= MAX_BUFFER_SIZE - 3 =>
              gout.state = "returned" /\ gout.ret = 0 - EINVAL
         /\ req.count = MAX_BUFFER_SIZE - 4 =>
              /\ gout.ret # 0 - EINVAL
              /\ gout.ret >= 0 => gout.total_len = MAX_BUFFER_SIZE
    /\ I2cEnded =>
         /\ req.count >= MAX_BUFFER_SIZE - 3 =>
              iout.state = "returned" /\ iout.ret = 0 - EINVAL
         /\ req.count = MAX_BUFFER_SIZE - 4 =>
              /\ iout.ret # 0 - EINVAL
              /\ iout.ret >= 0 => iout.total_len = MAX_BUFFER_SIZE

\* C3: in both write paths the frame has total_len <= MAX_BUFFER_SIZE and
\* every index of kernel_buffer stored to or transmitted from lies in
\* 0..MAX_BUFFER_SIZE-1.
C3_FrameCapacity ==
    /\ gout.total_len <= MAX_BUFFER_SIZE
    /\ \A idx \in gout.written \cup gout.sent : InBuffer(idx)
    /\ iout.total_len <= MAX_BUFFER_SIZE
    /\ \A idx \in iout.written \cup iout.sent : InBuffer(idx)

\* C4: the frame built by the GPIO handler for a payload of n bytes has
\* total_len = n + 4, its first n bytes are the payload and its last four
\* bytes, read as a little-endian 32-bit value, are the CRC (CRC-32/JAMCRC)
\* of the payload.
C4_FramingInvariant ==
    GpioSucceeded =>
        LET n == req.count
            buf == gout.kernel_buffer
        IN  /\ gout.total_len = n + 4
            /\ DOMAIN buf = 0..(n + 3)
            /\ \A k \in 0..(n - 1) : buf[k] = req.user_buffer[k + 1]
            /\ LittleEndianU32(buf[n], buf[n + 1], buf[n + 2], buf[n + 3])
                   = JamCrc(req.user_buffer)

\* C4 witness: the longest accepted payload has been framed
C4_Witness ==
    GpioSucceeded /\ req.count = MAX_BUFFER_SIZE - 4

\* C5: the bytes handed to the block write by the I2C handler are the bytes
\* the GPIO handler shifts out for the same payload: the payload followed by
\* four new little-endian CRC bytes.
C5_IdenticalLayout ==
    /\ GpioSucceeded =>
         ShiftedBytes(gout.data_out, gout.total_len) = ReferenceFrame(req.user_buffer)
    /\ I2cSucceeded =>
         LET g == gpio_monitoring_sys_write(req.count, req.user_buffer, FALSE, 0) IN
         g.ret >= 0 =>
            /\ Len(iout.blocks) = 1
            /\ iout.blocks[1].data = ShiftedBytes(g.data_out, g.total_len)
            /\ iout.blocks[1].data = ReferenceFrame(req.user_buffer)

\* C6: at every CLOCK rising edge of a write the DATA line carries the next
\* bit of the frame, bytes in frame order and each byte bit 0 first, with
\* one CLOCK high pulse per bit: each gpiod_set_value(msc, 1) raises a low
\* CLOCK while DATA is bit j of byte i, and the following
\* gpiod_set_value(msc, 0) advances (i, j) to the next bit.
C6_BitOrderFidelity ==
    [][\A w \in Writers :
          /\ (pc[w] = "clock_high" /\ pc'[w] = "clock_low") =>
                /\ clock = 0 /\ clock' = 1
                /\ data = BitOf(kernel_buffer[w][i[w]], j[w])
          /\ (pc[w] = "clock_low" /\ pc'[w] # "clock_low") =>
                /\ clock' = 0
                /\ 8 * i'[w] + j'[w] = 8 * i[w] + j[w] + 1
                /\ j'[w] \in 0..7
                /\ pc'[w] = "set_idle" <=> i'[w] = count[w] + 4]_vars

\* C7: when a bit-bang write returns success, DATA is low and CLOCK is low.
C7_IdleRestoration ==
    [][\A w \in Writers :
          (pc[w] = "set_idle" /\ pc'[w] = "done" /\ ret'[w] >= 0) =>
              data' = 0 /\ clock' = 0]_vars

\* C8: on both endpoints a successful write of count bytes returns count.
C8_ReturnsCount ==
    /\ GpioSucceeded => gout.ret = req.count
    /\ I2cSucceeded => iout.ret = req.count

\* C9: a write that ends with EINVAL, EFAULT or ENODEV has driven neither
\* DATA nor CLOCK and has issued no block write; the lines and the bus are
\* as before the request (idle, nothing on the bus).
C9_NoTransmissionOnReject ==
    /\ (gout.state = "returned" /\ gout.ret \in Rejections) =>
          /\ gout.data_out = <<>> /\ gout.clock_out = <<>>
          /\ data = 0 /\ clock = 0
    /\ (iout.state = "returned" /\ iout.ret \in Rejections) =>
          /\ iout.blocks = <<>>
          /\ bus = <<>>

\* C9 witness: a request passed the size check of the GPIO handler and was
\* rejected when its copy failed
C9_Witness ==
    /\ gout.state = "returned" /\ gout.ret = 0 - EFAULT
    /\ req.count = MAX_BUFFER_SIZE - 4

\* C10: the calculate_crc of each variant computes CRC-32/JAMCRC of the
\* payload; the CRC of the empty payload is 0xFFFFFFFF.
C10_ChecksumFlavour ==
    /\ gout.total_len > 0 =>
         /\ gout.crc = JamCrc(req.user_buffer)
         /\ req.count = 0 => gout.crc = U32_ALL_ONES
    /\ iout.total_len > 0 =>
         /\ iout.crc = JamCrc(req.user_buffer)
         /\ req.count = 0 => iout.crc = U32_ALL_ONES

\* C11: for every payload length n the I2C handler accepts, the block write
\* it issues carries command (offset) 0 and exactly n + 4 bytes, the bytes
\* kernel_buffer[0] .. kernel_buffer[n + 3].
C11_BlockWriteLength ==
    \A b \in 1..Len(iout.blocks) :
        /\ iout.blocks[b].command = 0
        /\ Len(iout.blocks[b].data) = req.count + 4
        /\ iout.sent = 0..(req.count + 3)

\* the last byte of the blocks of the recorded I2C run (the only byte of a
\* block that may be one the handler has not stored), or 0
I2cLastBytes ==
    {0} \cup {iout.blocks[b].data[Len(iout.blocks[b].data)] :
                 b \in {c \in 1..Len(iout.blocks) : Len(iout.blocks[c].data) > 0}}

\* the copy_from_user outcomes (TRUE = bytes left uncopied) under which the
\* handler produces the recorded result
GpioCopyFaults ==
    {fault \in BOOLEAN :
        /\ fault => req.count > 0
        /\ gout = gpio_monitoring_sys_write(req.count, req.user_buffer, fault, 0)}
I2cCopyFaults ==
    {fault \in BOOLEAN :
        /\ fault => req.count > 0
        /\ \E bus_fail \in BOOLEAN, u \in I2cLastBytes, oob \in OobOutcomes :
             iout = i2c_monitoring_sys_write(req.count, req.user_buffer, fault,
                                             monitoring_sys_client, bus_fail, u, oob)}

\* a count whose frame of count + 4 bytes does not fit kernel_buffer
InvalidSize(cnt) == cnt + 4 > MAX_BUFFER_SIZE

\* C12: on both endpoints a write of an invalid size returns -EINVAL and a
\* write whose copy_from_user fails returns -EFAULT; an I2C write that finds
\* monitoring_sys_client NULL returns -ENODEV and one whose block write
\* returns an error returns -EIO; none of these requests returns a
\* non-negative value.
C12_ErrorCodeMapping ==
    /\ GpioEnded =>
         /\ InvalidSize(req.count) =>
              gout.state = "returned" /\ gout.ret = 0 - EINVAL
         /\ \A fault \in GpioCopyFaults :
              (fault /\ ~InvalidSize(req.count)) =>
                  gout.state = "returned" /\ gout.ret = 0 - EFAULT
    /\ I2cEnded =>
         /\ InvalidSize(req.count) =>
              iout.state = "returned" /\ iout.ret = 0 - EINVAL
         /\ \A fault \in I2cCopyFaults :
              /\ (fault /\ ~InvalidSize(req.count)) =>
                    iout.state = "returned" /\ iout.ret = 0 - EFAULT
              /\ (~fault /\ ~InvalidSize(req.count) /\ iout.state = "returned"
                     /\ monitoring_sys_client = "NULL") =>
                    iout.ret = 0 - ENODEV
         /\ (\E b \in 1..Len(iout.blocks) : iout.blocks[b].status = "error") =>
              iout.state = "returned" /\ iout.ret = 0 - EIO

\* C13: an I2C write request issues at most one block write, and a block
\* write that returned an error is the last one of its request, which ends
\* with -EIO.
C13_NoRetry ==
    [][/\ Len(iout'.blocks) <= 1
       /\ bus' # bus => iout.blocks = <<>> /\ bus' = bus \o iout'.blocks
       /\ (iout.state = "running" /\ iout'.state # "running") =>
             \A b \in 1..Len(iout'.blocks) :
                iout'.blocks[b].status = "error" =>
                    /\ b = Len(iout'.blocks)
                    /\ iout'.state = "returned" /\ iout'.ret = 0 - EIO]_vars

\* C14: the line events of every bit of a bit-bang write come in the order
\* DATA := bit j of byte i, CLOCK high, CLOCK low, then the next bit: DATA
\* is driven only while CLOCK is low and does not change between a CLOCK
\* rising edge and the following falling edge, each rising edge starts from
\* a low CLOCK with DATA carrying the bit, each falling edge ends the high
\* phase of that bit, and the bits are taken one by one in frame order.
C14_PhaseOrder ==
    [][/\ data' # data => clock = 0 /\ clock' = 0
       /\ \A w \in Writers :
            /\ (pc[w] \in {"set_data", "set_idle"} /\ pc'[w] # pc[w]) =>
                  clock = 0 /\ clock' = 0
            /\ (pc[w] = "set_data" /\ pc'[w] # pc[w]) =>
                  /\ pc'[w] = "clock_high"
                  /\ data' = BitOf(kernel_buffer[w][i[w]], j[w])
            /\ (pc[w] = "clock_high" /\ pc'[w] # pc[w]) =>
                  /\ pc'[w] = "clock_low"
                  /\ clock = 0 /\ clock' = 1
                  /\ data' = data /\ data = BitOf(kernel_buffer[w][i[w]], j[w])
            /\ (pc[w] = "clock_low" /\ pc'[w] # pc[w]) =>
                  /\ pc'[w] \in {"set_data", "set_idle"}
                  /\ clock = 1 /\ clock' = 0
                  /\ data' = data /\ data = BitOf(kernel_buffer[w][i[w]], j[w])
                  /\ 8 * i'[w] + j'[w] = 8 * i[w] + j[w] + 1]_vars

\* C15: two write requests with the same payload transmit the same bytes:
\* when a request is written twice and both writes succeed, the bytes shifted
\* out on DATA are the same both times, and so are the bytes handed to the
\* block write.
C15_Stateless ==
    /\ (gprev.state = "returned" /\ gprev.ret >= 0 /\ GpioSucceeded) =>
          ShiftedBytes(gout.data_out, gout.total_len)
              = ShiftedBytes(gprev.data_out, gprev.total_len)
    /\ (iprev.state = "returned" /\ iprev.ret >= 0 /\ I2cSucceeded) =>
          /\ Len(iout.blocks) = Len(iprev.blocks)
          /\ \A b \in 1..Len(iout.blocks) :
                iout.blocks[b].data = iprev.blocks[b].data

\* a write request is inside the GPIO handler / the I2C handler
GpioProcessing == \E w \in Writers : InHandler(w) /\ pc[w] # "killed"
I2cProcessing == ipc \in {"copy", "block_write", "return"}

\* C16: a probe that fails creates no proc file, and whenever a write request
\* is processed its transport has been set up by a probe: msd and msc are
\* descriptors obtained by gpiod_get (not NULL and not an error pointer),
\* respectively monitoring_sys_client is a probed client and the write does
\* not end with -ENODEV.
C16_SetupError ==
    /\ [](GpioProcessing =>
            msd \in {"held", "released"} /\ msc \in {"held", "released"})
    /\ [](I2cProcessing => monitoring_sys_client = "client")
    /\ [](iout.ret # 0 - ENODEV)
    /\ [][/\ (ppc # "idle" /\ proc_entry' # proc_entry) => ppc' = "return_ok"
          /\ (ppc' = "return_error" /\ proc_file' # proc_file) => proc_file' = "NULL"
          /\ (i2c_ppc # "idle" /\ i2c_proc_entry' # i2c_proc_entry) =>
                i2c_ppc' = "return_ok"
          /\ (i2c_ppc' = "return_error" /\ i2c_proc_file' # i2c_proc_file) =>
                i2c_proc_file' = "NULL"]_vars

\* C17: no write request drives DATA or CLOCK after monitoring_sys_remove
\* has released the handle of that line: no gpiod_set_value(msd, ...) of a
\* handler runs once remove has given a requested msd back with gpiod_put,
\* and no gpiod_set_value(msc, ...) once it has given a requested msc back.
C17_NoDriveAfterRelease ==
    [][\A w \in Writers :
          /\ (LineDrive(w) /\ pc[w] \in {"set_data", "set_idle"}) =>
                "msd" \notin remove_put
          /\ (LineDrive(w) /\ pc[w] \in {"clock_high", "clock_low"}) =>
                "msc" \notin remove_put]_vars

\* C18: a GPIO probe that returns an error leaves no line handle acquired:
\* every handle the call obtained with gpiod_get has been given back with
\* gpiod_put when it returns.
C18_ProbeCleanup ==
    [][(ppc = "return_error" /\ ppc' = "idle") => probe_acquired = {}]_vars

====
